---- MODULE Spec2Model ----
(***************************************************************************)
(* A model of internal/formatter.go of go-zetasqlite: the recursive        *)
(* FormatSQL translation of a resolved ZetaSQL tree into SQLite text.      *)
(*                                                                         *)
(* Text is a sequence of tokens.  A token is one literal fragment of a     *)
(* format string of the source ("FROM ", "SELECT ", "( ", ...) or one      *)
(* atom supplied by the tree (a column name, a path segment, an encoded    *)
(* literal).  The placeholder "?" is always a token of its own, so         *)
(* strings.Replace(body, "?", arg, 1) is the replacement of the first "?"  *)
(* token.                                                                  *)
(***************************************************************************)
EXTENDS Integers, Sequences, FiniteSets, TLC

VARIABLES
    phase,      \* "fresh": a context was built, nothing formatted; "done"
    paths,      \* fullpath.paths: the name-path cursor entries
    namePath,   \* the declared path of the statement (namePathFromContext)
    funcMap,    \* merged function name -> FunctionSpec body
    node,       \* the tree handed to New(node).FormatSQL(ctx)
    result,     \* what the top-level FormatSQL returned and the context after
    declared,   \* MergeNamePath: first argument
    resolved,   \* MergeNamePath: second argument
    merged,     \* MergeNamePath: result
    second      \* what formatting node once more, on another fresh context, returned

vars == <<phase, paths, namePath, funcMap, node, result, declared, resolved, merged, second>>

-----------------------------------------------------------------------------
(* Bounds *)

MaxPathLen == 3     \* longest name path given to MergeNamePath
MaxCursor == 2      \* most entries in the name-path cursor
MaxArgs == 2        \* most arguments of a function call formatted at top level
MaxDepth == 2       \* most scans nested below the scan formatted at top level
MaxBodyLen == 3     \* most tokens in the body of a FunctionSpec

-----------------------------------------------------------------------------
(* Sequence helpers *)

RECURSIVE Join(_, _)
\* strings.Join(elems, sep) on token sequences
Join(elems, sep) ==
    IF elems = <<>> THEN <<>>
    ELSE IF Len(elems) = 1 THEN elems[1]
    ELSE elems[1] \o sep \o Join(Tail(elems), sep)

SeqsUpTo(S, n) == UNION { [1..k -> S] : k \in 0..n }

-----------------------------------------------------------------------------
(* Name paths *)

\* FormatName: strings.Join(namePath, "_")
FormatName(path) == Join([i \in 1..Len(path) |-> <<path[i]>>], <<"_">>)

RECURSIVE MergeLoop(_, _, _)
\* the loop of MergeNamePath: collect segments until one equals queryPath[0]
MergeLoop(rest, first, acc) ==
    IF rest = <<>> THEN acc
    ELSE IF first = Head(rest) THEN acc
    ELSE MergeLoop(Tail(rest), first, Append(acc, Head(rest)))

\* a merge whose loop never breaks: all of the declared path is kept
MergeNamePathNoBreak(np, queryPath) ==
    IF Len(queryPath) = 0 THEN np ELSE np \o queryPath

MergeNamePath(np, queryPath) ==
    IF Len(queryPath) = 0 THEN np
    ELSE MergeLoop(np, queryPath[1], <<>>) \o queryPath

-----------------------------------------------------------------------------
(* The translation context.                                                *)
(*   c : the state shared by reference through one translation             *)
(*       idx        fullpath.idx, the cursor index                         *)
(*       columnMap  columnRefMap(ctx): column name -> formatted expression *)
(*       orderCols  analyticOrderColumnNames.values                        *)
(*       visited    history: number of FormatSQL calls made so far         *)
(*       errAt      history: value of visited when an error was raised     *)
(*       taken      history: the nodes that took a cursor entry, in order  *)
(*   e : the values a context.Context carries downwards only               *)
(*       tableName      analyticTableNameFromContext, "" when unset        *)
(*       partitionCols  analyticPartitionColumnNamesFromContext            *)
(***************************************************************************)

EmptyMap == [k \in {} |-> <<>>]

\* the context a caller builds for one top-level translation
FreshContext ==
    [idx |-> 0, columnMap |-> EmptyMap, orderCols |-> <<>>, visited |-> 0, errAt |-> 0,
     taken |-> <<>>]

\* fullpath.idx++ by the node n
Take(c, n) == [c EXCEPT !.idx = @ + 1, !.taken = Append(@, n)]

FreshEnv == [tableName |-> "", partitionCols |-> <<>>]

NoErr == "nil"
ErrArgType == "unexpected argument node type for analytic function"
ErrNoTable == "failed to find table name from analytic query"
ErrBoundary == "unexpected boundary type"
PanicIndex == "panic: index out of range"
PanicNil == "panic: nil pointer dereference"

\* return text, nil
Ok(text, c) == [text |-> text, err |-> NoErr, c |-> c]
\* return "", fmt.Errorf(...)
Raise(err, c) == [text |-> <<>>, err |-> err, c |-> [c EXCEPT !.errAt = c.visited]]
\* if err != nil { return "", err }
Fail(r) == [text |-> <<>>, err |-> r.err, c |-> r.c]

Failed(r) == r.err # NoErr

\* the back quote of the target dialect (SANY accepts none inside a string)
BackQuote == "<bq>"
\* fmt.Sprintf of a name between two back quotes
Quote(name) == <<BackQuote, name, BackQuote>>

MapPut(m, k, v) == [x \in DOMAIN m \cup {k} |-> IF x = k THEN v ELSE m[x]]
MapDelete(m, k) == [x \in DOMAIN m \ {k} |-> m[x]]

-----------------------------------------------------------------------------
(* Collaborators that live outside formatter.go *)

\* JSONFromZetaSQLValue: the opaque encoded text of a literal value
JSONFromZetaSQLValue(v) == <<"json:", v>>

\* the fixed catalogs of emulated functions
normalFuncMap == { <<"concat">> }
aggregateFuncMap == { <<"sum">> }
windowFuncMap == { <<"rank">> }

\* strings.ToLower on the type names the model uses
ToLower(typeName) ==
    [i \in 1..Len(typeName) |->
        CASE typeName[i] = "INT64" -> "int64"
          [] typeName[i] = "STRING" -> "string"
          [] typeName[i] = "STRUCT" -> "struct"
          [] OTHER -> typeName[i]]

getWindowPartitionOptionFuncSQL(column) ==
    <<"zetasqlite_window_partition_string(">> \o column \o <<")">>
getWindowOrderByOptionFuncSQL(column) ==
    <<"zetasqlite_window_order_by_string(">> \o column \o <<")">>
getWindowFrameUnitOptionFuncSQL(unit) ==
    <<"zetasqlite_window_frame_unit_string(", unit, ")">>
getWindowBoundaryStartOptionFuncSQL(typ, literal) ==
    <<"zetasqlite_window_boundary_start_string(", typ, ",">> \o literal \o <<")">>
getWindowBoundaryEndOptionFuncSQL(typ, literal) ==
    <<"zetasqlite_window_boundary_end_string(", typ, ",">> \o literal \o <<")">>
getWindowRowIDOptionFuncSQL == <<"zetasqlite_window_rowid_string(", BackQuote, "rowid", BackQuote, ")">>

-----------------------------------------------------------------------------
(* Expressions *)

RECURSIVE FormatSQL(_, _, _)
RECURSIVE FormatList(_, _, _)

\* for _, a := range list { s, err := newNode(a).FormatSQL(ctx);
\*                          if err != nil { return "", err }; out = append(out, s) }
FormatList(nodes, c, e) ==
    IF nodes = <<>> THEN [texts |-> <<>>, err |-> NoErr, c |-> c]
    ELSE LET r == FormatSQL(Head(nodes), c, e) IN
         IF Failed(r) THEN [texts |-> <<>>, err |-> r.err, c |-> r.c]
         ELSE LET rest == FormatList(Tail(nodes), r.c, e) IN
              [texts |-> <<r.text>> \o rest.texts, err |-> rest.err, c |-> rest.c]

LiteralFormatSQL(n, c, e) ==
    IF n.absent THEN Ok(<<>>, c)
    ELSE Ok(JSONFromZetaSQLValue(n.literal), c)

\* no nil check: n.node.Name() dereferences an absent payload
ParameterFormatSQL(n, c, e) ==
    IF n.absent THEN Raise(PanicNil, c)
    ELSE Ok(<<"@", n.name>>, c)

ColumnRefFormatSQL(n, c, e) ==
    IF n.absent THEN Ok(<<>>, c)
    ELSE Ok(Quote(n.name), c)

ArgumentRefFormatSQL(n, c, e) ==
    IF n.absent THEN Ok(<<>>, c)
    ELSE Ok(<<"?">>, c)

\* the node kinds whose FormatSQL only returns "", nil
UnsupportedFormatSQL(n, c, e) == Ok(<<>>, c)

\* a result type name that keeps the fields of a struct type
ResultTypeNameWithFields(typeName) == ToLower(typeName)

\* lower-cased result type name, every struct type collapsed to "struct"
ResultTypeName(typeName) ==
    LET resultType == ToLower(typeName) IN
    IF Len(resultType) > 0 /\ resultType[1] = "struct" THEN <<"struct">> ELSE resultType

RECURSIVE ReplaceFirst(_, _)
\* strings.Replace(body, "?", arg, 1)
ReplaceFirst(body, arg) ==
    IF body = <<>> THEN <<>>
    ELSE IF Head(body) = "?" THEN arg \o Tail(body)
    ELSE <<Head(body)>> \o ReplaceFirst(Tail(body), arg)

RECURSIVE InlineBody(_, _)
\* for _, arg := range args { body = strings.Replace(body, "?", arg, 1) }
InlineBody(body, args) ==
    IF args = <<>> THEN body
    ELSE InlineBody(ReplaceFirst(body, Head(args)), Tail(args))

\* The callee of a scalar, aggregate or analytic call: the mangled name of a
\* sigil-prefixed or catalog-listed function, else the merged name of the next
\* cursor entry, inlined when funcMap has a spec for it.
\* Returns inlined (the handler returns text at once) or the callee name in text.
ResolveCallee(prefix, catalog, n, args, c) ==
    LET resultType == ResultTypeName(n.type)
        funcName == n.fn
    IN  IF Len(funcName) > 0 /\ funcName[1] = "$"
        THEN [inlined |-> FALSE, err |-> NoErr, c |-> c,
              text |-> <<prefix>> \o Tail(funcName) \o <<"_">> \o resultType]
        ELSE IF funcName \in catalog
        THEN [inlined |-> FALSE, err |-> NoErr, c |-> c,
              text |-> <<prefix>> \o funcName \o <<"_">> \o resultType]
        ELSE IF c.idx >= Len(paths)
        THEN [inlined |-> FALSE, err |-> PanicIndex, text |-> <<>>,
              c |-> [c EXCEPT !.errAt = c.visited]]
        ELSE LET path == paths[c.idx + 1]
                 name == FormatName(MergeNamePath(namePath, path))
                 c1 == Take(c, n)
             IN  IF name \in DOMAIN funcMap
                 THEN [inlined |-> TRUE, err |-> NoErr, c |-> c1,
                       text |-> <<"( ">> \o InlineBody(funcMap[name], args) \o <<" )">>]
                 ELSE [inlined |-> FALSE, err |-> NoErr, c |-> c1, text |-> name]

\* "%s(%s)", funcName, strings.Join(args, ",")
CallText(funcName, args) == funcName \o <<"(">> \o Join(args, <<",">>) \o <<")">>

FunctionCallFormatSQL(n, c, e) ==
    IF n.absent THEN Ok(<<>>, c)
    ELSE LET as == FormatList(n.args, c, e) IN
         IF Failed(as) THEN Fail(as)
         ELSE LET f == ResolveCallee("zetasqlite_", normalFuncMap, n, as.texts, as.c) IN
              IF Failed(f) THEN Fail(f)
              ELSE IF f.inlined THEN Ok(f.text, f.c)
              ELSE Ok(CallText(f.text, as.texts), f.c)

RECURSIVE AggregateOrderByOpts(_, _, _)
\* the ORDER BY loop of an aggregate call: one option per item
AggregateOrderByOpts(items, c, e) ==
    IF items = <<>> THEN [texts |-> <<>>, err |-> NoErr, c |-> c]
    ELSE LET r == FormatSQL(Head(items).columnRef, c, e) IN
         IF Failed(r) THEN [texts |-> <<>>, err |-> r.err, c |-> r.c]
         ELSE LET opt == <<"zetasqlite_order_by_string(">> \o r.text
                           \o <<IF Head(items).descending THEN ", false)" ELSE ", true)">>
                  rest == AggregateOrderByOpts(Tail(items), r.c, e)
              IN  [texts |-> <<opt>> \o rest.texts, err |-> rest.err, c |-> rest.c]

AggregateFunctionCallFormatSQL(n, c, e) ==
    IF n.absent THEN Ok(<<>>, c)
    ELSE LET as == FormatList(n.args, c, e) IN
         IF Failed(as) THEN Fail(as)
         ELSE LET f == ResolveCallee("zetasqlite_", aggregateFuncMap, n, as.texts, as.c) IN
              IF Failed(f) THEN Fail(f)
              ELSE IF f.inlined THEN Ok(f.text, f.c)
              ELSE LET ob == AggregateOrderByOpts(n.orderBy, f.c, e) IN
                   IF Failed(ob) THEN Fail(ob)
                   ELSE LET dist == IF n.distinct
                                    THEN <<(<<"zetasqlite_distinct_string()">>)>> ELSE <<>>
                            lim == IF n.limit.kind = "none"
                                   THEN Ok(<<>>, ob.c) ELSE FormatSQL(n.limit, ob.c, e)
                        IN  IF Failed(lim) THEN Fail(lim)
                            ELSE LET limOpt ==
                                       IF n.limit.kind = "none" THEN <<>>
                                       ELSE <<(<<"zetasqlite_limit_string(">> \o lim.text \o <<")">>)>>
                                 IN  Ok(CallText(f.text, as.texts \o ob.texts \o dist \o limOpt),
                                        lim.c)

\* the argument loop of an analytic call: every argument must be a column
\* reference; its table becomes the correlation table and its text joins the
\* shared column list
RECURSIVE AnalyticArgs(_, _, _)
AnalyticArgs(args, c, e) ==
    IF args = <<>> THEN [texts |-> <<>>, err |-> NoErr, c |-> c, e |-> e]
    ELSE LET a == Head(args) IN
         IF a.kind # "ColumnRef"
         THEN [texts |-> <<>>, err |-> ErrArgType, c |-> [c EXCEPT !.errAt = c.visited], e |-> e]
         ELSE IF a.absent
         THEN [texts |-> <<>>, err |-> PanicNil, c |-> [c EXCEPT !.errAt = c.visited], e |-> e]
         ELSE LET e1 == [e EXCEPT !.tableName = a.table]
                  r == FormatSQL(a, c, e1)
              IN  IF Failed(r) THEN [texts |-> <<>>, err |-> r.err, c |-> r.c, e |-> e1]
                  ELSE LET c2 == [r.c EXCEPT !.orderCols = Append(@, r.text)]
                           rest == AnalyticArgs(Tail(args), c2, e1)
                       IN  [texts |-> <<r.text>> \o rest.texts, err |-> rest.err,
                            c |-> rest.c, e |-> rest.e]

KnownBoundaryTypes ==
    {"UnboundedPreceding", "OffsetPreceding", "CurrentRow", "OffsetFollowing",
     "UnboundedFollowing"}

\* a boundary switch whose default branch yields an empty option, no error
WindowBoundaryDefaultsSilently(expr, isStart, c, e) ==
    LET typ == expr.boundaryType IN
    IF typ \in {"OffsetPreceding", "OffsetFollowing"}
    THEN LET literal == FormatSQL(expr.expression, c, e) IN
         IF Failed(literal) THEN Fail(literal)
         ELSE IF isStart THEN Ok(getWindowBoundaryStartOptionFuncSQL(typ, literal.text), literal.c)
         ELSE Ok(getWindowBoundaryEndOptionFuncSQL(typ, literal.text), literal.c)
    ELSE IF isStart THEN Ok(getWindowBoundaryStartOptionFuncSQL(typ, <<>>), c)
    ELSE Ok(getWindowBoundaryEndOptionFuncSQL(typ, <<>>), c)

getWindowBoundaryOptionFuncSQL(expr, isStart, c, e) ==
    LET typ == expr.boundaryType IN
    IF typ \in {"UnboundedPreceding", "CurrentRow", "UnboundedFollowing"}
    THEN IF isStart THEN Ok(getWindowBoundaryStartOptionFuncSQL(typ, <<>>), c)
         ELSE Ok(getWindowBoundaryEndOptionFuncSQL(typ, <<>>), c)
    ELSE IF typ \in {"OffsetPreceding", "OffsetFollowing"}
    THEN LET literal == FormatSQL(expr.expression, c, e) IN
         IF Failed(literal) THEN Fail(literal)
         ELSE IF isStart THEN Ok(getWindowBoundaryStartOptionFuncSQL(typ, literal.text), literal.c)
         ELSE Ok(getWindowBoundaryEndOptionFuncSQL(typ, literal.text), literal.c)
    ELSE Raise(ErrBoundary, c)

\* frame options that put the end boundary before the start boundary
WindowFrameOptsEndFirst(windowFrame, c, e) ==
    IF windowFrame.kind = "none" THEN [texts |-> <<>>, err |-> NoErr, c |-> c]
    ELSE LET startSQL == getWindowBoundaryOptionFuncSQL(windowFrame.startExpr, TRUE, c, e) IN
         IF Failed(startSQL) THEN [texts |-> <<>>, err |-> startSQL.err, c |-> startSQL.c]
         ELSE LET endSQL == getWindowBoundaryOptionFuncSQL(windowFrame.endExpr, FALSE, startSQL.c, e) IN
              IF Failed(endSQL) THEN [texts |-> <<>>, err |-> endSQL.err, c |-> endSQL.c]
              ELSE [texts |-> <<getWindowFrameUnitOptionFuncSQL(windowFrame.frameUnit),
                                endSQL.text, startSQL.text>>,
                    err |-> NoErr, c |-> endSQL.c]

\* the window frame options of an analytic call: unit, start, end
WindowFrameOpts(windowFrame, c, e) ==
    IF windowFrame.kind = "none" THEN [texts |-> <<>>, err |-> NoErr, c |-> c]
    ELSE LET startSQL == getWindowBoundaryOptionFuncSQL(windowFrame.startExpr, TRUE, c, e) IN
         IF Failed(startSQL) THEN [texts |-> <<>>, err |-> startSQL.err, c |-> startSQL.c]
         ELSE LET endSQL == getWindowBoundaryOptionFuncSQL(windowFrame.endExpr, FALSE, startSQL.c, e) IN
              IF Failed(endSQL) THEN [texts |-> <<>>, err |-> endSQL.err, c |-> endSQL.c]
              ELSE [texts |-> <<getWindowFrameUnitOptionFuncSQL(windowFrame.frameUnit),
                                startSQL.text, endSQL.text>>,
                    err |-> NoErr, c |-> endSQL.c]

AnalyticFunctionCallFormatSQL(n, c, e) ==
    IF n.absent THEN Ok(<<>>, c)
    ELSE LET orderColumns == c.orderCols
             as == AnalyticArgs(n.args, c, e)
         IN  IF Failed(as) THEN Fail(as)
             ELSE IF as.e.tableName = "" THEN Raise(ErrNoTable, as.c)
             ELSE LET f == ResolveCallee("zetasqlite_window_", windowFuncMap, n, as.texts, as.c) IN
                  IF Failed(f) THEN Fail(f)
                  ELSE IF f.inlined THEN Ok(f.text, f.c)
                  ELSE LET dist == IF n.distinct
                                   THEN <<(<<"zetasqlite_distinct_string()">>)>> ELSE <<>>
                           parts == [i \in 1..Len(as.e.partitionCols) |->
                                        getWindowPartitionOptionFuncSQL(as.e.partitionCols[i])]
                           ords == [i \in 1..Len(orderColumns) |->
                                        getWindowOrderByOptionFuncSQL(orderColumns[i])]
                           fr == WindowFrameOpts(n.windowFrame, f.c, as.e)
                       IN  IF Failed(fr) THEN Fail(fr)
                           ELSE Ok(<<"( SELECT ">>
                                   \o CallText(f.text, as.texts \o dist \o parts \o ords \o fr.texts
                                                       \o <<getWindowRowIDOptionFuncSQL>>)
                                   \o <<" FROM ", as.e.tableName, " )">>,
                                   fr.c)

GetStructFieldFormatSQL(n, c, e) ==
    IF n.absent THEN Ok(<<>>, c)
    ELSE LET expr == FormatSQL(n.expr, c, e) IN
         IF Failed(expr) THEN Fail(expr)
         ELSE Ok(<<"zetasqlite_get_struct_field_">> \o ResultTypeName(n.type) \o <<"(">>
                 \o expr.text \o <<", ", n.fieldIdx, ")">>, expr.c)

SubqueryExprFormatSQL(n, c, e) ==
    IF n.absent THEN Ok(<<>>, c)
    ELSE LET sql == FormatSQL(n.subquery, c, e) IN
         IF Failed(sql) THEN Fail(sql)
         ELSE IF n.subqueryType = "Exists"
         THEN Ok(<<"EXISTS (">> \o sql.text \o <<")">>, sql.c)
         ELSE Ok(sql.text, sql.c)

-----------------------------------------------------------------------------
(* Scans *)

\* a table scan that reads the cursor entry without advancing the index
TableScanKeepsIndex(n, c, e) ==
    IF n.absent THEN Ok(<<>>, c)
    ELSE IF c.idx >= Len(paths) THEN Raise(PanicIndex, c)
    ELSE Ok(<<"FROM ", BackQuote>>
            \o FormatName(MergeNamePath(namePath, paths[c.idx + 1])) \o <<BackQuote>>, c)

TableScanFormatSQL(n, c, e) ==
    IF n.absent THEN Ok(<<>>, c)
    ELSE IF c.idx >= Len(paths) THEN Raise(PanicIndex, c)
    ELSE LET path == paths[c.idx + 1]
             tableName == FormatName(MergeNamePath(namePath, path))
         IN  Ok(<<"FROM ", BackQuote>> \o tableName \o <<BackQuote>>,
                Take(c, n))

ArrayScanFormatSQL(n, c, e) ==
    IF n.absent THEN Ok(<<>>, c)
    ELSE LET arrayExpr == FormatSQL(n.arrayExpr, c, e) IN
         IF Failed(arrayExpr) THEN Fail(arrayExpr)
         ELSE Ok(<<"FROM ( SELECT json_each.value AS ", BackQuote, n.elementColumn, BackQuote,
                   " FROM json_each(zetasqlite_decode_array_string(">>
                 \o arrayExpr.text \o <<")) )">>, arrayExpr.c)

\* a filter scan that looks at the error of its input only after it has
\* formatted the filter expression too
FilterScanChecksLate(n, c, e) ==
    IF n.absent THEN Ok(<<>>, c)
    ELSE LET input == FormatSQL(n.inputScan, c, e)
             filter == FormatSQL(n.filterExpr, input.c, e)
         IN  IF Failed(input) THEN [text |-> <<>>, err |-> input.err, c |-> filter.c]
             ELSE IF Failed(filter) THEN Fail(filter)
             ELSE Ok(input.text \o <<" WHERE ">> \o filter.text, filter.c)

FilterScanFormatSQL(n, c, e) ==
    IF n.absent THEN Ok(<<>>, c)
    ELSE LET input == FormatSQL(n.inputScan, c, e) IN
         IF Failed(input) THEN Fail(input)
         ELSE LET filter == FormatSQL(n.filterExpr, input.c, e) IN
              IF Failed(filter) THEN Fail(filter)
              ELSE Ok(input.text \o <<" WHERE ">> \o filter.text, filter.c)

AggregateScanFormatSQL(n, c, e) ==
    IF n.absent THEN Ok(<<>>, c)
    ELSE LET aggs == FormatList(n.aggregateList, c, e) IN
         IF Failed(aggs) THEN Fail(aggs)
         ELSE LET input == FormatSQL(n.inputScan, aggs.c, e) IN
              IF Failed(input) THEN Fail(input)
              ELSE IF Len(input.text) > 0 /\ input.text[1] = "SELECT "
              THEN Ok(<<"FROM ( ">> \o input.text \o <<" )">>, input.c)
              ELSE Ok(input.text, input.c)

SetOperationItemFormatSQL(n, c, e) ==
    IF n.absent THEN Ok(<<>>, c)
    ELSE FormatSQL(n.scan, c, e)

\* the switch on OpType, with its default branch
SetOperationKeyword(opType) ==
    CASE opType = "UnionAll" -> "UNION ALL"
      [] opType = "UnionDistinct" -> "UNION DISTINCT"
      [] opType = "IntersectAll" -> "INTERSECT ALL"
      [] opType = "IntersectDistinct" -> "INTERSECT DISTINCT"
      [] opType = "ExceptAll" -> "EXCEPT ALL"
      [] opType = "ExceptDistinct" -> "EXCEPT DISTINCT"
      [] OTHER -> "UNKONWN"

SetOperationScanFormatSQL(n, c, e) ==
    IF n.absent THEN Ok(<<>>, c)
    ELSE LET opType == SetOperationKeyword(n.opType)
             queries == FormatList(n.inputItemList, c, e)
         IN  IF Failed(queries) THEN Fail(queries)
             ELSE Ok(Join(queries.texts, <<" ", opType, " ">>), queries.c)

WithRefScanFormatSQL(n, c, e) ==
    IF n.absent THEN Ok(<<>>, c)
    ELSE Ok(<<"FROM ", n.withQueryName>>, c)

\* the group loop of an analytic scan: record the partition and order columns
\* of each group in the shared list and in the context, then format the group.
\* The context variable is reassigned inside the loop, so what one group sets is
\* still set when the next group is formatted.
RECURSIVE AnalyticGroups(_, _, _)
AnalyticGroups(groups, c, e) ==
    IF groups = <<>> THEN [err |-> NoErr, c |-> c]
    ELSE LET group == Head(groups)
             hasPartition == group.partitionBy.kind # "none"
             pl == IF hasPartition THEN group.partitionBy.list ELSE <<>>
             partitionColumns == [i \in 1..Len(pl) |-> Quote(pl[i].name)]
             e1 == IF hasPartition
                   THEN [tableName |-> IF pl = <<>> THEN e.tableName ELSE pl[Len(pl)].table,
                         partitionCols |-> partitionColumns]
                   ELSE e
             c1 == IF hasPartition THEN [c EXCEPT !.orderCols = @ \o partitionColumns] ELSE c
             hasOrder == group.orderBy.kind # "none"
             ol == IF hasOrder THEN group.orderBy.list ELSE <<>>
             orderByColumns == [i \in 1..Len(ol) |-> Quote(ol[i].name)]
             e2 == IF hasOrder /\ ol # <<>>
                   THEN [e1 EXCEPT !.tableName = ol[Len(ol)].table]
                   ELSE e1
             c2 == IF hasOrder THEN [c1 EXCEPT !.orderCols = @ \o orderByColumns] ELSE c1
             r == FormatSQL(group, c2, e2)
         IN  IF Failed(r) THEN [err |-> r.err, c |-> r.c]
             ELSE AnalyticGroups(Tail(groups), r.c, e2)

AnalyticScanFormatSQL(n, c, e) ==
    IF n.absent THEN Ok(<<>>, c)
    ELSE LET input == FormatSQL(n.inputScan, c, e) IN
         IF Failed(input) THEN Fail(input)
         ELSE LET gs == AnalyticGroups(n.functionGroupList, input.c, e) IN
              IF Failed(gs) THEN [text |-> <<>>, err |-> gs.err, c |-> gs.c]
              ELSE LET orderBy == <<"ORDER BY ">> \o Join(gs.c.orderCols, <<",">>) IN
                   Ok(<<"FROM ( SELECT *, ROW_NUMBER() OVER() AS ", BackQuote, "rowid",
                        BackQuote, " ">> \o input.text \o <<" ) ">> \o orderBy,
                      [gs.c EXCEPT !.orderCols = <<>>])

\* the function loop of a group: format each function, then add its output
\* column name to the shared list
RECURSIVE AnalyticGroupFunctions(_, _, _)
\* a function loop that does not add the output column of the function
AnalyticGroupFunctionsNoOutput(columns, c, e) ==
    IF columns = <<>> THEN [texts |-> <<>>, err |-> NoErr, c |-> c]
    ELSE LET sql == FormatSQL(Head(columns), c, e) IN
         IF Failed(sql) THEN [texts |-> <<>>, err |-> sql.err, c |-> sql.c]
         ELSE LET rest == AnalyticGroupFunctions(Tail(columns), sql.c, e) IN
              [texts |-> <<sql.text>> \o rest.texts, err |-> rest.err, c |-> rest.c]

AnalyticGroupFunctions(columns, c, e) ==
    IF columns = <<>> THEN [texts |-> <<>>, err |-> NoErr, c |-> c]
    ELSE LET column == Head(columns)
             sql == FormatSQL(column, c, e)
         IN  IF Failed(sql) THEN [texts |-> <<>>, err |-> sql.err, c |-> sql.c]
             ELSE IF column.absent
             THEN [texts |-> <<>>, err |-> PanicNil, c |-> [sql.c EXCEPT !.errAt = sql.c.visited]]
             ELSE LET c1 == [sql.c EXCEPT !.orderCols = Append(@, Quote(column.name))]
                      rest == AnalyticGroupFunctions(Tail(columns), c1, e)
                  IN  [texts |-> <<sql.text>> \o rest.texts, err |-> rest.err, c |-> rest.c]

AnalyticFunctionGroupFormatSQL(n, c, e) ==
    IF n.absent THEN Ok(<<>>, c)
    ELSE LET queries == AnalyticGroupFunctions(n.analyticFunctionList, c, e) IN
         IF Failed(queries) THEN Fail(queries)
         ELSE Ok(Join(queries.texts, <<",">>), queries.c)

ComputedColumnFormatSQL(n, c, e) ==
    IF n.absent THEN Ok(<<>>, c)
    ELSE LET expr == FormatSQL(n.expr, c, e) IN
         IF Failed(expr) THEN Fail(expr)
         ELSE LET query == expr.text \o <<" AS ", BackQuote, n.name, BackQuote>> IN
              Ok(query, [expr.c EXCEPT !.columnMap = MapPut(@, n.name, query)])

OutputColumnFormatSQL(n, c, e) ==
    IF n.absent THEN Ok(<<>>, c)
    ELSE IF n.name \in DOMAIN c.columnMap THEN Ok(c.columnMap[n.name], c)
    ELSE Ok(Quote(n.name), c)

\* the ColumnList loop of a project scan: reuse and remove the map entry of a
\* declared output column, else emit the bare quoted name
RECURSIVE ProjectColumns(_, _)
ProjectColumns(columnList, columnMap) ==
    IF columnList = <<>> THEN [columns |-> <<>>, columnMap |-> columnMap]
    ELSE LET colName == Head(columnList) IN
         IF colName \in DOMAIN columnMap
         THEN LET rest == ProjectColumns(Tail(columnList), MapDelete(columnMap, colName)) IN
              [columns |-> <<columnMap[colName]>> \o rest.columns, columnMap |-> rest.columnMap]
         ELSE LET rest == ProjectColumns(Tail(columnList), columnMap) IN
              [columns |-> <<Quote(colName)>> \o rest.columns, columnMap |-> rest.columnMap]

\* a project scan that formats its input scan before its computed columns
ProjectScanInputFirst(n, c, e) ==
    IF n.absent THEN Ok(<<>>, c)
    ELSE LET input == FormatSQL(n.inputScan, c, e) IN
         IF Failed(input) THEN Fail(input)
         ELSE LET exprs == FormatList(n.exprList, input.c, e) IN
              IF Failed(exprs) THEN Fail(exprs)
              ELSE LET cols == ProjectColumns(n.columnList, exprs.c.columnMap) IN
                   Ok(<<"SELECT ">> \o Join(cols.columns, <<",">>) \o <<" ">> \o input.text,
                      [exprs.c EXCEPT !.columnMap = cols.columnMap])

ProjectScanFormatSQL(n, c, e) ==
    IF n.absent THEN Ok(<<>>, c)
    ELSE LET exprs == FormatList(n.exprList, c, e) IN
         IF Failed(exprs) THEN Fail(exprs)
         ELSE LET input == FormatSQL(n.inputScan, exprs.c, e) IN
              IF Failed(input) THEN Fail(input)
              ELSE LET cols == ProjectColumns(n.columnList, input.c.columnMap) IN
                   Ok(<<"SELECT ">> \o Join(cols.columns, <<",">>) \o <<" ">> \o input.text,
                      [input.c EXCEPT !.columnMap = cols.columnMap])

QueryStmtFormatSQL(n, c, e) ==
    IF n.absent THEN Ok(<<>>, c)
    ELSE FormatSQL(n.query, c, e)

WithScanFormatSQL(n, c, e) ==
    IF n.absent THEN Ok(<<>>, c)
    ELSE LET queries == FormatList(n.withEntryList, c, e) IN
         IF Failed(queries) THEN Fail(queries)
         ELSE LET query == FormatSQL(n.query, queries.c, e) IN
              IF Failed(query) THEN Fail(query)
              ELSE Ok(<<"WITH ">> \o Join(queries.texts, <<", ">>) \o <<" ">> \o query.text,
                      query.c)

WithEntryFormatSQL(n, c, e) ==
    IF n.absent THEN Ok(<<>>, c)
    ELSE LET subquery == FormatSQL(n.withSubquery, c, e) IN
         IF Failed(subquery) THEN Fail(subquery)
         ELSE Ok(<<n.withQueryName, " AS ( ">> \o subquery.text \o <<" )">>, subquery.c)

-----------------------------------------------------------------------------
(* DML.  These handlers test the wrapper (n == nil), not its payload, so an  *)
(* absent payload is dereferenced.                                          *)

DMLValueFormatSQL(n, c, e) ==
    IF n.absent THEN Raise(PanicNil, c)
    ELSE FormatSQL(n.value, c, e)

InsertRowFormatSQL(n, c, e) ==
    IF n.absent THEN Raise(PanicNil, c)
    ELSE LET values == FormatList(n.valueList, c, e) IN
         IF Failed(values) THEN Fail(values)
         ELSE Ok(<<"(">> \o Join(values.texts, <<",">>) \o <<")">>, values.c)

\* the target of a DML statement: the merged, flattened next cursor entry
DMLTarget(c) == FormatName(MergeNamePath(namePath, paths[c.idx + 1]))

InsertStmtFormatSQL(n, c, e) ==
    IF c.idx >= Len(paths) THEN Raise(PanicIndex, c)
    ELSE LET formattedTableName == DMLTarget(c)
             c1 == Take(c, n)
         IN  IF n.absent THEN Raise(PanicNil, c1)
             ELSE LET columns == [i \in 1..Len(n.insertColumnList) |->
                                     Quote(n.insertColumnList[i])]
                      rows == FormatList(n.rowList, c1, e)
                  IN  IF Failed(rows) THEN Fail(rows)
                      ELSE Ok(<<"INSERT INTO ", BackQuote>> \o formattedTableName
                              \o <<BackQuote, " (">> \o Join(columns, <<",">>)
                              \o <<") VALUES ">> \o Join(rows.texts, <<",">>), rows.c)

DeleteStmtFormatSQL(n, c, e) ==
    IF c.idx >= Len(paths) THEN Raise(PanicIndex, c)
    ELSE LET formattedTableName == DMLTarget(c)
             c1 == Take(c, n)
         IN  IF n.absent THEN Raise(PanicNil, c1)
             ELSE LET where == FormatSQL(n.whereExpr, c1, e) IN
                  IF Failed(where) THEN Fail(where)
                  ELSE Ok(<<"DELETE FROM ", BackQuote>> \o formattedTableName
                          \o <<BackQuote, " WHERE ">> \o where.text, where.c)

UpdateItemFormatSQL(n, c, e) ==
    IF n.absent THEN Ok(<<>>, c)
    ELSE LET target == FormatSQL(n.target, c, e) IN
         IF Failed(target) THEN Fail(target)
         ELSE LET setValue == FormatSQL(n.setValue, target.c, e) IN
              IF Failed(setValue) THEN Fail(setValue)
              ELSE Ok(target.text \o <<"=">> \o setValue.text, setValue.c)

UpdateStmtFormatSQL(n, c, e) ==
    IF c.idx >= Len(paths) THEN Raise(PanicIndex, c)
    ELSE LET formattedTableName == DMLTarget(c)
             c1 == Take(c, n)
         IN  IF n.absent THEN Raise(PanicNil, c1)
             ELSE LET updateItems == FormatList(n.updateItemList, c1, e) IN
                  IF Failed(updateItems) THEN Fail(updateItems)
                  ELSE LET where == FormatSQL(n.whereExpr, updateItems.c, e) IN
                       IF Failed(where) THEN Fail(where)
                       ELSE Ok(<<"UPDATE ", BackQuote>> \o formattedTableName
                               \o <<BackQuote, " SET ">> \o Join(updateItems.texts, <<",">>)
                               \o <<" WHERE ">> \o where.text, where.c)

-----------------------------------------------------------------------------
(* newNode(node).FormatSQL(ctx): the dispatch on the node kind *)

Dispatch(n, c, e) ==
    CASE n.kind = "Literal" -> LiteralFormatSQL(n, c, e)
      [] n.kind = "Parameter" -> ParameterFormatSQL(n, c, e)
      [] n.kind = "ColumnRef" -> ColumnRefFormatSQL(n, c, e)
      [] n.kind = "ArgumentRef" -> ArgumentRefFormatSQL(n, c, e)
      [] n.kind = "FunctionCall" -> FunctionCallFormatSQL(n, c, e)
      [] n.kind = "AggregateFunctionCall" -> AggregateFunctionCallFormatSQL(n, c, e)
      [] n.kind = "AnalyticFunctionCall" -> AnalyticFunctionCallFormatSQL(n, c, e)
      [] n.kind = "GetStructField" -> GetStructFieldFormatSQL(n, c, e)
      [] n.kind = "SubqueryExpr" -> SubqueryExprFormatSQL(n, c, e)
      [] n.kind = "TableScan" -> TableScanFormatSQL(n, c, e)
      [] n.kind = "ArrayScan" -> ArrayScanFormatSQL(n, c, e)
      [] n.kind = "FilterScan" -> FilterScanFormatSQL(n, c, e)
      [] n.kind = "AggregateScan" -> AggregateScanFormatSQL(n, c, e)
      [] n.kind = "SetOperationItem" -> SetOperationItemFormatSQL(n, c, e)
      [] n.kind = "SetOperationScan" -> SetOperationScanFormatSQL(n, c, e)
      [] n.kind = "WithRefScan" -> WithRefScanFormatSQL(n, c, e)
      [] n.kind = "AnalyticScan" -> AnalyticScanFormatSQL(n, c, e)
      [] n.kind = "AnalyticFunctionGroup" -> AnalyticFunctionGroupFormatSQL(n, c, e)
      [] n.kind = "ComputedColumn" -> ComputedColumnFormatSQL(n, c, e)
      [] n.kind = "OutputColumn" -> OutputColumnFormatSQL(n, c, e)
      [] n.kind = "ProjectScan" -> ProjectScanFormatSQL(n, c, e)
      [] n.kind = "QueryStmt" -> QueryStmtFormatSQL(n, c, e)
      [] n.kind = "WithScan" -> WithScanFormatSQL(n, c, e)
      [] n.kind = "WithEntry" -> WithEntryFormatSQL(n, c, e)
      [] n.kind = "DMLValue" -> DMLValueFormatSQL(n, c, e)
      [] n.kind = "InsertRow" -> InsertRowFormatSQL(n, c, e)
      [] n.kind = "InsertStmt" -> InsertStmtFormatSQL(n, c, e)
      [] n.kind = "DeleteStmt" -> DeleteStmtFormatSQL(n, c, e)
      [] n.kind = "UpdateItem" -> UpdateItemFormatSQL(n, c, e)
      [] n.kind = "UpdateStmt" -> UpdateStmtFormatSQL(n, c, e)
      [] OTHER -> UnsupportedFormatSQL(n, c, e)

FormatSQL(n, c, e) == Dispatch(n, [c EXCEPT !.visited = @ + 1], e)

-----------------------------------------------------------------------------
(* The trees the model formats.  A node is a record: its kind, whether the  *)
(* wrapper's payload is absent (n.node == nil), and the fields its          *)
(* FormatSQL reads.                                                         *)

None == [kind |-> "none", absent |-> TRUE]
Absent(kind) == [kind |-> kind, absent |-> TRUE]
Unsupported(kind) == [kind |-> kind, absent |-> FALSE]

Lit(v) == [kind |-> "Literal", absent |-> FALSE, literal |-> v]
Col(name, table) == [kind |-> "ColumnRef", absent |-> FALSE, name |-> name, table |-> table]
Param(name) == [kind |-> "Parameter", absent |-> FALSE, name |-> name]
ArgRef == [kind |-> "ArgumentRef", absent |-> FALSE]
Call(fn, type, args) ==
    [kind |-> "FunctionCall", absent |-> FALSE, fn |-> fn, type |-> type, args |-> args]
AggCall(fn, type, args, orderBy, distinct, limit) ==
    [kind |-> "AggregateFunctionCall", absent |-> FALSE, fn |-> fn, type |-> type,
     args |-> args, orderBy |-> orderBy, distinct |-> distinct, limit |-> limit]
OrderItem(columnRef, descending) == [columnRef |-> columnRef, descending |-> descending]
WinCall(fn, type, args, distinct, windowFrame) ==
    [kind |-> "AnalyticFunctionCall", absent |-> FALSE, fn |-> fn, type |-> type,
     args |-> args, distinct |-> distinct, windowFrame |-> windowFrame]
Boundary(boundaryType, expression) ==
    [boundaryType |-> boundaryType, expression |-> expression]
Frame(frameUnit, startExpr, endExpr) ==
    [kind |-> "WindowFrame", frameUnit |-> frameUnit, startExpr |-> startExpr,
     endExpr |-> endExpr]
StructField(expr, type, fieldIdx) ==
    [kind |-> "GetStructField", absent |-> FALSE, expr |-> expr, type |-> type,
     fieldIdx |-> fieldIdx]
Subquery(subquery, subqueryType) ==
    [kind |-> "SubqueryExpr", absent |-> FALSE, subquery |-> subquery,
     subqueryType |-> subqueryType]

Table == [kind |-> "TableScan", absent |-> FALSE]
ArrayScan(arrayExpr, elementColumn) ==
    [kind |-> "ArrayScan", absent |-> FALSE, arrayExpr |-> arrayExpr,
     elementColumn |-> elementColumn]
Filter(inputScan, filterExpr) ==
    [kind |-> "FilterScan", absent |-> FALSE, inputScan |-> inputScan,
     filterExpr |-> filterExpr]
AggScan(aggregateList, inputScan) ==
    [kind |-> "AggregateScan", absent |-> FALSE, aggregateList |-> aggregateList,
     inputScan |-> inputScan]
SetItem(scan) == [kind |-> "SetOperationItem", absent |-> FALSE, scan |-> scan]
SetOp(opType, inputItemList) ==
    [kind |-> "SetOperationScan", absent |-> FALSE, opType |-> opType,
     inputItemList |-> inputItemList]
WithRef(withQueryName) ==
    [kind |-> "WithRefScan", absent |-> FALSE, withQueryName |-> withQueryName]
ColumnList(kind, list) == [kind |-> kind, list |-> list]
Group(partitionBy, orderBy, analyticFunctionList) ==
    [kind |-> "AnalyticFunctionGroup", absent |-> FALSE, partitionBy |-> partitionBy,
     orderBy |-> orderBy, analyticFunctionList |-> analyticFunctionList]
AnScan(inputScan, functionGroupList) ==
    [kind |-> "AnalyticScan", absent |-> FALSE, inputScan |-> inputScan,
     functionGroupList |-> functionGroupList]
CC(name, expr) == [kind |-> "ComputedColumn", absent |-> FALSE, name |-> name, expr |-> expr]
OutCol(name) == [kind |-> "OutputColumn", absent |-> FALSE, name |-> name]
Project(exprList, inputScan, columnList) ==
    [kind |-> "ProjectScan", absent |-> FALSE, exprList |-> exprList,
     inputScan |-> inputScan, columnList |-> columnList]
Query(query) == [kind |-> "QueryStmt", absent |-> FALSE, query |-> query]
WithEntry(withQueryName, withSubquery) ==
    [kind |-> "WithEntry", absent |-> FALSE, withQueryName |-> withQueryName,
     withSubquery |-> withSubquery]
With(withEntryList, query) ==
    [kind |-> "WithScan", absent |-> FALSE, withEntryList |-> withEntryList, query |-> query]
DMLValue(value) == [kind |-> "DMLValue", absent |-> FALSE, value |-> value]
InsertRow(valueList) == [kind |-> "InsertRow", absent |-> FALSE, valueList |-> valueList]
Insert(insertColumnList, rowList) ==
    [kind |-> "InsertStmt", absent |-> FALSE, insertColumnList |-> insertColumnList,
     rowList |-> rowList]
Delete(whereExpr) == [kind |-> "DeleteStmt", absent |-> FALSE, whereExpr |-> whereExpr]
UpdateItem(target, setValue) ==
    [kind |-> "UpdateItem", absent |-> FALSE, target |-> target, setValue |-> setValue]
Update(updateItemList, whereExpr) ==
    [kind |-> "UpdateStmt", absent |-> FALSE, updateItemList |-> updateItemList,
     whereExpr |-> whereExpr]

-----------------------------------------------------------------------------
(* The inputs the model draws *)

Int64 == <<"INT64">>
StructT == <<"STRUCT", "<a INT64>">>
ResultTypes == {Int64, StructT}

\* function identities: sigil-prefixed, catalog-listed, neither
ScalarFns == { <<"$", "add">>, <<"concat">>, <<"udf">> }
AggregateFns == { <<"$", "count_star">>, <<"sum">>, <<"udf">> }
WindowFns == { <<"$", "row_number">>, <<"rank">>, <<"udf">> }

X == Col("x", "t")
Y == Col("y", "t")
One == Lit("1")
UdfCall(args) == Call(<<"udf">>, Int64, args)

LeafExprs == {One, X, Param("p"), ArgRef}
ArgSamples == LeafExprs \cup {UdfCall(<<One>>)}

FunctionCallNodes ==
    { Call(fn, ty, args) : fn \in ScalarFns, ty \in ResultTypes,
                           args \in SeqsUpTo(ArgSamples, MaxArgs) }

AggregateFunctionCallNodes ==
    { AggCall(fn, Int64, args, ob, d, lim) :
        fn \in AggregateFns, args \in SeqsUpTo({X, UdfCall(<<>>)}, 1),
        ob \in {<<>>, <<OrderItem(X, FALSE)>>, <<OrderItem(Y, TRUE), OrderItem(X, FALSE)>>},
        d \in BOOLEAN, lim \in {None, One} }

UnknownBoundaryType == "Unknown"
BoundaryTypes == KnownBoundaryTypes \cup {UnknownBoundaryType}
BoundaryOf(t) ==
    Boundary(t, IF t \in {"OffsetPreceding", "OffsetFollowing"} THEN One ELSE None)
Frames ==
    {None}
    \cup { Frame("ROWS", BoundaryOf(t), BoundaryOf("CurrentRow")) : t \in BoundaryTypes }
    \cup { Frame("RANGE", BoundaryOf("UnboundedPreceding"), BoundaryOf(t)) : t \in BoundaryTypes }
    \cup { Frame("ROWS", BoundaryOf(UnknownBoundaryType), BoundaryOf(UnknownBoundaryType)) }

AnalyticFunctionCallNodes ==
    { WinCall(fn, Int64, args, d, fr) :
        fn \in WindowFns, args \in SeqsUpTo({X, Y, One}, MaxArgs),
        d \in BOOLEAN, fr \in Frames }

Rank(args) == WinCall(<<"rank">>, Int64, args, FALSE, None)

\* expressions used as children of scans and statements
ExprSamples ==
    { X, One, UdfCall(<<X>>), Call(<<"$", "add">>, Int64, <<X, One>>),
      StructField(X, StructT, "0"),
      Subquery(Project(<<>>, Table, <<"x">>), "Exists"),
      Subquery(Table, "Scalar"),
      AggCall(<<"sum">>, Int64, <<X>>, <<>>, FALSE, None),
      Rank(<<One>>), Rank(<<X>>) }

ComputedColumnSamples ==
    { CC("y", Call(<<"$", "add">>, Int64, <<X, One>>)), CC("x", UdfCall(<<X>>)),
      CC("w", Rank(<<X>>)) }

Partitioning(cols) == ColumnList("WindowPartitioning", cols)
Ordering(cols) == ColumnList("WindowOrdering", cols)
GroupSamples ==
    { Group(p, o, fns) :
        p \in {None, Partitioning(<<Col("p", "t")>>)},
        o \in {None, Ordering(<<Col("o", "t")>>)},
        fns \in { <<CC("w", Rank(<<X>>))>>, <<CC("w", Rank(<<>>))>>,
                  <<CC("v", Rank(<<Y>>)), CC("w", WinCall(<<"udf">>, Int64, <<X>>, FALSE, None))>> } }
    \cup { Group(Partitioning(<<Col("p", "t")>>), Ordering(<<Col("o", "t")>>),
                 <<CC("w", WinCall(<<"rank">>, Int64, <<X>>, TRUE,
                                   Frame("ROWS", BoundaryOf("OffsetPreceding"),
                                         BoundaryOf("CurrentRow"))))>>) }
SecondGroupSamples ==
    { Group(None, None, <<CC("u", Rank(<<Y>>))>>),
      Group(Partitioning(<<Col("q", "t")>>), None, <<CC("u", Rank(<<>>))>>) }
GroupLists ==
    {<<>>} \cup { <<g>> : g \in GroupSamples }
    \cup { <<g, h>> : g \in { k \in GroupSamples : k.orderBy.kind = "none" },
                      h \in SecondGroupSamples }

BaseScans == {Table, WithRef("w"), Unsupported("JoinScan")}

\* the scans built on one input scan
Wrappers(s) ==
    { Filter(s, UdfCall(<<>>)), Filter(s, Rank(<<One>>)),
      AggScan(<<CC("a", AggCall(<<"sum">>, Int64, <<X>>, <<>>, FALSE, None))>>, s),
      Project(<<CC("y", Call(<<"$", "add">>, Int64, <<X, One>>))>>, s, <<"y">>),
      Project(<<CC("w", Rank(<<X>>))>>, s, <<"x">>),
      AnScan(s, <<Group(Partitioning(<<Col("p", "t")>>), None, <<CC("w", Rank(<<X>>))>>)>>),
      SetOp("UnionAll", <<SetItem(s), SetItem(Table)>>),
      With(<<WithEntry("w", Table)>>, s) }

RECURSIVE Scans(_)
\* the scans of nesting depth at most d
Scans(d) ==
    IF d = 0 THEN BaseScans
    ELSE BaseScans \cup UNION { Wrappers(s) : s \in Scans(d - 1) }

InputScans == Scans(MaxDepth - 1)

OpTypes ==
    {"UnionAll", "UnionDistinct", "IntersectAll", "IntersectDistinct", "ExceptAll",
     "ExceptDistinct"}
UnknownOpType == "Unknown"

ColumnLists == SeqsUpTo({"x", "y"}, 2)
ComputedColumnLists ==
    SeqsUpTo(ComputedColumnSamples, 1)
    \cup { <<CC("y", Call(<<"$", "add">>, Int64, <<X, One>>)), CC("x", UdfCall(<<X>>))>>,
           <<CC("y", X), CC("y", One)>> }

ArrayScanNodes == { ArrayScan(ex, "x") : ex \in ExprSamples }
FilterScanNodes == { Filter(s, ex) : s \in InputScans, ex \in ExprSamples }
AggregateScanNodes ==
    { AggScan(aggs, s) :
        aggs \in SeqsUpTo({ CC("a", AggCall(<<"sum">>, Int64, <<X>>, <<>>, FALSE, None)),
                            CC("y", AggCall(<<"udf">>, Int64, <<X>>, <<>>, FALSE, None)) }, 2),
        s \in InputScans }
SetOperationScanNodes ==
    { SetOp(op, items) :
        op \in OpTypes \cup {UnknownOpType},
        items \in { <<>>, <<SetItem(Table)>>, <<SetItem(Table), SetItem(Table)>>,
                    <<SetItem(Project(<<>>, Table, <<"x">>)), SetItem(Filter(Table, Rank(<<One>>))),
                      SetItem(Table)>> } }
    \cup { SetOp(op, <<SetItem(s), SetItem(Table)>>) :
             op \in {"UnionAll", UnknownOpType}, s \in InputScans }
AnalyticScanNodes == { AnScan(s, gs) : s \in InputScans, gs \in GroupLists }
ProjectScanNodes ==
    { Project(exprs, s, cols) :
        exprs \in ComputedColumnLists, s \in InputScans, cols \in SeqsUpTo({"x", "y"}, 1) \cup {<<"x", "y">>} }
WithScanNodes ==
    { With(entries, s) :
        entries \in { <<WithEntry("w", Table)>>,
                      <<WithEntry("w", Table), WithEntry("v", Filter(Table, UdfCall(<<>>)))>> },
        s \in InputScans }
QueryStmtNodes == { Query(s) : s \in Scans(MaxDepth) }

DMLValues == { DMLValue(ex) : ex \in {One, Param("p"), UdfCall(<<One>>), Rank(<<One>>)} }
InsertRows == { InsertRow(vs) : vs \in SeqsUpTo(DMLValues, 2) }
InsertStmtNodes ==
    { Insert(cols, rows) : cols \in ColumnLists, rows \in SeqsUpTo(InsertRows, 1) }
    \cup { Insert(<<"x">>, <<r, r>>) : r \in InsertRows }
DeleteStmtNodes == { Delete(ex) : ex \in ExprSamples }
UpdateItems == { UpdateItem(X, v) : v \in DMLValues }
UpdateStmtNodes ==
    { Update(items, ex) : items \in SeqsUpTo(UpdateItems, 2), ex \in ExprSamples }

\* nodes formatted directly, each kind once present and once with an absent payload
SingleNodes ==
    LeafExprs \cup {Y, OutCol("x"), Table, WithRef("w"), Unsupported("JoinScan"),
                    Unsupported("CastNode")}
    \cup { StructField(ex, ty, "0") : ex \in {X, UdfCall(<<>>)}, ty \in ResultTypes }
    \cup { Subquery(s, ty) : s \in Scans(1), ty \in {"Exists", "Scalar"} }
    \cup { CC("y", ex) : ex \in ExprSamples }
    \cup GroupSamples \cup DMLValues \cup InsertRows \cup UpdateItems
    \cup { Absent(k) : k \in {"Literal", "Parameter", "ColumnRef", "ArgumentRef",
             "FunctionCall", "AggregateFunctionCall", "AnalyticFunctionCall",
             "GetStructField", "SubqueryExpr", "TableScan", "ArrayScan", "FilterScan",
             "AggregateScan", "SetOperationItem", "SetOperationScan", "WithRefScan",
             "AnalyticScan", "AnalyticFunctionGroup", "ComputedColumn", "OutputColumn",
             "ProjectScan", "QueryStmt", "WithScan", "WithEntry", "DMLValue", "InsertRow",
             "InsertStmt", "DeleteStmt", "UpdateItem", "UpdateStmt"} }

\* cursor entries: the path of a function with a FunctionSpec, the path of a table
CursorPaths == { <<"udf">>, <<"t">> }
PathLists == SeqsUpTo(CursorPaths, MaxCursor)

DeclaredPath == <<"db">>
SpecName == FormatName(<<"db", "udf">>)
MainFuncMap == [k \in {SpecName} |-> <<"?", " + ", "?">>]

-----------------------------------------------------------------------------
(* Specification: one fresh context, one top-level translation *)

NoResult == [text |-> <<>>, err |-> NoErr, c |-> FreshContext]

Init ==
    /\ phase = "fresh"
    /\ paths \in PathLists
    /\ namePath = DeclaredPath
    /\ funcMap = MainFuncMap
    /\ node = None
    /\ result = NoResult
    /\ declared = <<>>
    /\ resolved = <<>>
    /\ merged = <<>>
    /\ second = NoResult

\* New(n).FormatSQL(ctx) on a fresh context
Translate(n) ==
    /\ phase' = "done"
    /\ node' = n
    /\ result' = FormatSQL(n, FreshContext, FreshEnv)
    /\ UNCHANGED <<paths, namePath, funcMap, declared, resolved, merged, second>>

FormatNode ==
    /\ phase = "fresh"
    /\ \E n \in SingleNodes : Translate(n)
FormatFunctionCall ==
    /\ phase = "fresh"
    /\ \E n \in FunctionCallNodes : Translate(n)
FormatAggregateFunctionCall ==
    /\ phase = "fresh"
    /\ \E n \in AggregateFunctionCallNodes : Translate(n)
FormatAnalyticFunctionCall ==
    /\ phase = "fresh"
    /\ \E n \in AnalyticFunctionCallNodes : Translate(n)
FormatArrayScan ==
    /\ phase = "fresh"
    /\ \E n \in ArrayScanNodes : Translate(n)
FormatFilterScan ==
    /\ phase = "fresh"
    /\ \E n \in FilterScanNodes : Translate(n)
FormatAggregateScan ==
    /\ phase = "fresh"
    /\ \E n \in AggregateScanNodes : Translate(n)
FormatSetOperationScan ==
    /\ phase = "fresh"
    /\ \E n \in SetOperationScanNodes : Translate(n)
FormatAnalyticScan ==
    /\ phase = "fresh"
    /\ \E n \in AnalyticScanNodes : Translate(n)
FormatProjectScan ==
    /\ phase = "fresh"
    /\ \E n \in ProjectScanNodes : Translate(n)
FormatWithScan ==
    /\ phase = "fresh"
    /\ \E n \in WithScanNodes : Translate(n)
FormatQueryStmt ==
    /\ phase = "fresh"
    /\ \E n \in QueryStmtNodes : Translate(n)
FormatInsertStmt ==
    /\ phase = "fresh"
    /\ \E n \in InsertStmtNodes : Translate(n)
FormatDeleteStmt ==
    /\ phase = "fresh"
    /\ \E n \in DeleteStmtNodes : Translate(n)
FormatUpdateStmt ==
    /\ phase = "fresh"
    /\ \E n \in UpdateStmtNodes : Translate(n)

Next ==
    \/ FormatNode
    \/ FormatFunctionCall
    \/ FormatAggregateFunctionCall
    \/ FormatAnalyticFunctionCall
    \/ FormatArrayScan
    \/ FormatFilterScan
    \/ FormatAggregateScan
    \/ FormatSetOperationScan
    \/ FormatAnalyticScan
    \/ FormatProjectScan
    \/ FormatWithScan
    \/ FormatQueryStmt
    \/ FormatInsertStmt
    \/ FormatDeleteStmt
    \/ FormatUpdateStmt

Spec == Init /\ [][Next]_vars

Done == phase = "done"

-----------------------------------------------------------------------------
(* Specification SpecMerge: MergeNamePath on every pair of short name paths *)

Segments == {"a", "b", "c", "d"}
NamePaths == SeqsUpTo(Segments, MaxPathLen)

InitMerge ==
    /\ phase = "fresh"
    /\ declared \in NamePaths
    /\ resolved \in NamePaths
    /\ merged = <<>>
    /\ second = NoResult
    /\ paths = <<>>
    /\ namePath = <<>>
    /\ funcMap = MainFuncMap
    /\ node = None
    /\ result = NoResult

CallMergeNamePath ==
    /\ phase = "fresh"
    /\ phase' = "done"
    /\ merged' = MergeNamePath(declared, resolved)
    /\ UNCHANGED <<paths, namePath, funcMap, node, result, declared, resolved, second>>

NextMerge == CallMergeNamePath

SpecMerge == InitMerge /\ [][NextMerge]_vars

-----------------------------------------------------------------------------
(* Specification SpecInline: calls of a user-defined function whose          *)
(* FunctionSpec body ranges over every short token sequence                  *)

Bodies == SeqsUpTo({"?", " + "}, MaxBodyLen)

InitInline ==
    /\ phase = "fresh"
    /\ paths = [i \in 1..(MaxArgs + 1) |-> <<"udf">>]
    /\ namePath = DeclaredPath
    /\ \E body \in Bodies : funcMap = [k \in {SpecName} |-> body]
    /\ node = None
    /\ result = NoResult
    /\ declared = <<>>
    /\ resolved = <<>>
    /\ merged = <<>>
    /\ second = NoResult

InlineFunctionCall ==
    /\ phase = "fresh"
    /\ \E args \in SeqsUpTo(ArgSamples, MaxArgs) : Translate(UdfCall(args))

InlineAggregateFunctionCall ==
    /\ phase = "fresh"
    /\ \E args \in SeqsUpTo({X, One, ArgRef}, MaxArgs) :
          Translate(AggCall(<<"udf">>, Int64, args, <<>>, FALSE, None))

InlineAnalyticFunctionCall ==
    /\ phase = "fresh"
    /\ \E args \in SeqsUpTo({X, Y}, MaxArgs) :
          Translate(WinCall(<<"udf">>, Int64, args, FALSE, None))

NextInline ==
    \/ InlineFunctionCall
    \/ InlineAggregateFunctionCall
    \/ InlineAnalyticFunctionCall

SpecInline == InitInline /\ [][NextInline]_vars

-----------------------------------------------------------------------------
(* Specification SpecTwice: the same tree formatted twice, each time on a    *)
(* context built anew from the same paths, declared path and FunctionSpecs   *)

\* a context that keeps what the previous translation left in its context
ReusedContext(previous) == previous

\* the context a caller builds for the next translation: nothing of the
\* previous one is in it
NewContext(previous) == FreshContext

\* trees whose translation changes every part of the context
RepeatNodes == ProjectScanNodes \cup AnalyticScanNodes \cup UpdateStmtNodes

FirstTranslation ==
    /\ phase = "fresh"
    /\ \E n \in RepeatNodes : Translate(n)

SecondTranslation ==
    /\ phase = "done"
    /\ phase' = "twice"
    /\ second' = FormatSQL(node, NewContext(result.c), FreshEnv)
    /\ UNCHANGED <<paths, namePath, funcMap, node, result, declared, resolved, merged>>

NextTwice ==
    \/ FirstTranslation
    \/ SecondTranslation

SpecTwice == Init /\ [][NextTwice]_vars

-----------------------------------------------------------------------------
(* Specification SpecMangle: one call formatted on a first context, then     *)
(* once more on a context with other cursor entries, another declared path   *)
(* and another FunctionSpec map                                              *)

StringT == <<"STRING">>
StructU == <<"STRUCT", "<b STRING, c INT64>">>
MangleTypes == {Int64, StringT, StructT, StructU}

DeclaredPaths == { DeclaredPath, <<"proj", "db">> }
FuncMaps == { MainFuncMap, EmptyMap }

\* calls of every identity and result type; an argument that is itself a
\* user-defined call moves the cursor before the callee is resolved
MangleNodes ==
    { Call(fn, ty, args) : fn \in ScalarFns, ty \in MangleTypes,
                           args \in {<<>>, <<UdfCall(<<>>)>>} }
    \cup { AggCall(fn, ty, <<X>>, <<>>, FALSE, None) : fn \in AggregateFns, ty \in MangleTypes }
    \cup { WinCall(fn, ty, <<X>>, FALSE, None) : fn \in WindowFns, ty \in MangleTypes }

InitMangle ==
    /\ phase = "fresh"
    /\ paths \in PathLists
    /\ namePath = DeclaredPath
    /\ funcMap \in FuncMaps
    /\ node = None
    /\ result = NoResult
    /\ declared = <<>>
    /\ resolved = <<>>
    /\ merged = <<>>
    /\ second = NoResult

FormatCall ==
    /\ phase = "fresh"
    /\ \E n \in MangleNodes : Translate(n)

\* the caller builds a context from other values
BuildOtherContext ==
    /\ phase = "done"
    /\ phase' = "rebuilt"
    /\ paths' \in PathLists
    /\ namePath' \in DeclaredPaths
    /\ funcMap' \in FuncMaps
    /\ UNCHANGED <<node, result, declared, resolved, merged, second>>

\* the same call formatted on that context
FormatCallElsewhere ==
    /\ phase = "rebuilt"
    /\ phase' = "moved"
    /\ second' = FormatSQL(node, FreshContext, FreshEnv)
    /\ UNCHANGED <<paths, namePath, funcMap, node, result, declared, resolved, merged>>

NextMangle ==
    \/ FormatCall
    \/ BuildOtherContext
    \/ FormatCallElsewhere

SpecMangle == InitMangle /\ [][NextMangle]_vars

-----------------------------------------------------------------------------
(* Properties *)

Succeeded == Done /\ result.err = NoErr
\* the errors FormatSQL returns, as opposed to a panic
ReturnedErrors == {ErrArgType, ErrNoTable, ErrBoundary}

CallKinds == {"FunctionCall", "AggregateFunctionCall", "AnalyticFunctionCall"}
DMLKinds == {"InsertStmt", "DeleteStmt", "UpdateStmt"}

\* neither sigil-prefixed nor listed in the catalog of its kind
UserDefined(n) ==
    /\ n.kind \in CallKinds
    /\ ~(Len(n.fn) > 0 /\ n.fn[1] = "$")
    /\ n.fn \notin (CASE n.kind = "FunctionCall" -> normalFuncMap
                      [] n.kind = "AggregateFunctionCall" -> aggregateFuncMap
                      [] OTHER -> windowFuncMap)

\* the nodes a node hands to FormatSQL (the options of a call and the columns
\* of a window are column references and literals, which are no references)
Children(n) ==
    IF n.absent THEN <<>>
    ELSE CASE n.kind \in CallKinds -> n.args
           [] n.kind = "GetStructField" -> <<n.expr>>
           [] n.kind = "SubqueryExpr" -> <<n.subquery>>
           [] n.kind = "ArrayScan" -> <<n.arrayExpr>>
           [] n.kind = "FilterScan" -> <<n.inputScan, n.filterExpr>>
           [] n.kind = "AggregateScan" -> n.aggregateList \o <<n.inputScan>>
           [] n.kind = "SetOperationItem" -> <<n.scan>>
           [] n.kind = "SetOperationScan" -> n.inputItemList
           [] n.kind = "AnalyticScan" -> <<n.inputScan>> \o n.functionGroupList
           [] n.kind = "AnalyticFunctionGroup" -> n.analyticFunctionList
           [] n.kind = "ComputedColumn" -> <<n.expr>>
           [] n.kind = "ProjectScan" -> n.exprList \o <<n.inputScan>>
           [] n.kind = "QueryStmt" -> <<n.query>>
           [] n.kind = "WithScan" -> n.withEntryList \o <<n.query>>
           [] n.kind = "WithEntry" -> <<n.withSubquery>>
           [] n.kind = "DMLValue" -> <<n.value>>
           [] n.kind = "InsertRow" -> n.valueList
           [] n.kind = "InsertStmt" -> n.rowList
           [] n.kind = "DeleteStmt" -> <<n.whereExpr>>
           [] n.kind = "UpdateItem" -> <<n.target, n.setValue>>
           [] n.kind = "UpdateStmt" -> n.updateItemList \o <<n.whereExpr>>
           [] OTHER -> <<>>

\* a table scan, a user-defined call or a DML target
IsReference(n) ==
    /\ ~n.absent
    /\ \/ n.kind = "TableScan"
       \/ n.kind \in DMLKinds
       \/ UserDefined(n)

RECURSIVE CountRefs(_)
RECURSIVE CountRefsSeq(_)
CountRefsSeq(ns) == IF ns = <<>> THEN 0 ELSE CountRefs(Head(ns)) + CountRefsSeq(Tail(ns))
\* the number of references in a tree
CountRefs(n) == (IF IsReference(n) THEN 1 ELSE 0) + CountRefsSeq(Children(n))

\* C1: after a successful translation the cursor index equals the number of
\* table scans, user-defined function calls and DML targets in the tree: each
\* advanced it by one, every other node by zero, a DML statement once for itself.
C1_CursorCountsReferences == Succeeded => result.c.idx = CountRefs(node)

\* C1 witness: an update statement was translated and took two cursor entries,
\* one for its target and one for a user-defined call below it
C1_Witness ==
    /\ Succeeded
    /\ node.kind = "UpdateStmt"
    /\ ~node.absent
    /\ result.c.idx = 2
    /\ CountRefsSeq(Children(node)) = 1

\* the longest prefix of path d that holds no segment equal to s
PrefixBefore(d, s) ==
    LET hits == { i \in 1..Len(d) : d[i] = s } IN
    IF hits = {} THEN d
    ELSE SubSeq(d, 1, (CHOOSE i \in hits : \A j \in hits : i <= j) - 1)

\* C8: merge(declared, resolved) is declared when resolved is empty, else the
\* longest prefix of declared without a segment equal to resolved[0], followed
\* by resolved; merge([a,b,c], [b,c,d]) = [a,b,c,d].
C8_MergeIsPrefixThenResolved ==
    Done =>
      /\ merged = IF resolved = <<>> THEN declared
                  ELSE PrefixBefore(declared, resolved[1]) \o resolved
      /\ (declared = <<"a", "b", "c">> /\ resolved = <<"b", "c", "d">>)
            => merged = <<"a", "b", "c", "d">>

\* C8 witness: the example of the specification has been merged, cutting the
\* declared path at its second segment
C8_Witness ==
    /\ Done
    /\ declared = <<"a", "b", "c">>
    /\ resolved = <<"b", "c", "d">>
    /\ merged = <<"a", "b", "c", "d">>

\* C2 (as claimed): once a project scan has finished formatting, the
\* column-expression map holds no entry.
C2_MapEmptyAfterProjectScan ==
    (Succeeded /\ node.kind = "ProjectScan" /\ ~node.absent)
        => DOMAIN result.c.columnMap = {}

\* C3: a translation that ends in an error returns empty text, and no node was
\* formatted after the one that raised the error.
C3_ErrorAbortsTranslation ==
    (Done /\ result.err \in ReturnedErrors)
        => /\ result.text = <<>>
           /\ result.c.visited = result.c.errAt

\* C3 witness: a filter scan whose input scan failed; its own filter
\* expression, a call that would have consumed a cursor entry, was not formatted
C3_Witness ==
    /\ Done
    /\ node.kind = "FilterScan"
    /\ ~node.absent
    /\ node.inputScan.kind = "FilterScan"
    /\ node.filterExpr = UdfCall(<<X>>)
    /\ Len(paths) > 0
    /\ result.c.idx = 0
    /\ result.err = ErrArgType
    /\ result.text = <<>>
    /\ result.c.visited = result.c.errAt

\* C4 (as claimed): a set-operation scan whose operator code is none of the six
\* recognized codes returns an error and no text.
C4_UnknownSetOperatorIsError ==
    (Done /\ node.kind = "SetOperationScan" /\ ~node.absent /\ node.opType \notin OpTypes)
        => /\ result.err # NoErr
           /\ result.text = <<>>

\* an analytic call that declares a frame with an unrecognized boundary kind
HasUnknownBoundary(n) ==
    /\ n.kind = "AnalyticFunctionCall"
    /\ ~n.absent
    /\ n.windowFrame.kind # "none"
    /\ \/ n.windowFrame.startExpr.boundaryType \notin KnownBoundaryTypes
       \/ n.windowFrame.endExpr.boundaryType \notin KnownBoundaryTypes

TakesNoCallableName(n) ==
    /\ UserDefined(n)
    /\ \/ paths = <<>>
       \/ FormatName(MergeNamePath(namePath, paths[1])) \in DOMAIN funcMap

RECURSIVE Substitute(_, _)
\* the body with its i-th placeholder replaced by the i-th argument text
Substitute(body, args) ==
    IF body = <<>> THEN <<>>
    ELSE IF Head(body) = "?" /\ args # <<>>
    THEN Head(args) \o Substitute(Tail(body), Tail(args))
    ELSE <<Head(body)>> \o Substitute(Tail(body), args)

Placeholders(body) == Cardinality({ i \in 1..Len(body) : body[i] = "?" })

\* the texts of the arguments of the call formatted at top level
ArgTexts ==
    IF node.kind = "AnalyticFunctionCall"
    THEN AnalyticArgs(node.args, FreshContext, FreshEnv).texts
    ELSE FormatList(node.args, FreshContext, FreshEnv).texts

\* the call formatted at top level was inlined from the FunctionSpec
InlinedCall ==
    /\ Succeeded
    /\ node.kind \in CallKinds
    /\ ~node.absent
    /\ UserDefined(node)
    /\ result.c.idx > 0
    /\ FormatName(MergeNamePath(namePath, paths[result.c.idx])) \in DOMAIN funcMap

\* C6 (as claimed): an inlined call is the body with its i-th placeholder
\* replaced by the i-th formatted argument, in parentheses, whatever the
\* argument texts are.
C6_InlineSubstitutesPositionally ==
    (InlinedCall /\ Len(node.args) = Placeholders(funcMap[SpecName]))
        => result.text = <<"( ">> \o Substitute(funcMap[SpecName], ArgTexts) \o <<" )">>

\* C7 (as claimed): an inlined call whose argument count differs from the
\* number of placeholders of the body is reported as an error.
C7_ArityMismatchIsError ==
    (Done /\ node.kind \in CallKinds /\ ~node.absent /\ UserDefined(node)
          /\ Len(node.args) # Placeholders(funcMap[SpecName]))
        => result.err # NoErr

\* the number of places at which sub occurs in text
Occurrences(sub, text) ==
    Cardinality({ i \in 1..(Len(text) - Len(sub) + 1) : SubSeq(text, i, i + Len(sub) - 1) = sub })

\* the computed columns of the project scan formatted at top level, formatted
ProjectExprs == FormatList(node.exprList, FreshContext, FreshEnv)

\* the formatted computed column of that name, or the bare quoted name
ExpectedSelectItem(name) ==
    LET js == { j \in 1..Len(node.exprList) : node.exprList[j].name = name } IN
    IF js = {} THEN Quote(name)
    ELSE ProjectExprs.texts[CHOOSE j \in js : \A k \in js : k <= j]

\* C9 (as claimed): the SELECT list of a project scan has the computed
\* expression for each declared output column that has one and the bare quoted
\* name for every other, and each computed expression is emitted exactly once.
C9_ComputedColumnsEmittedOnce ==
    (Succeeded /\ node.kind = "ProjectScan" /\ ~node.absent)
        => /\ result.text =
                <<"SELECT ">>
                \o Join([i \in 1..Len(node.columnList) |->
                            ExpectedSelectItem(node.columnList[i])], <<",">>)
                \o <<" ">> \o FormatSQL(node.inputScan, ProjectExprs.c, FreshEnv).text
           /\ \A j \in 1..Len(node.exprList) :
                Occurrences(ProjectExprs.texts[j], result.text) = 1

RECURSIVE Concat(_)
Concat(seqs) == IF seqs = <<>> THEN <<>> ELSE Head(seqs) \o Concat(Tail(seqs))

QuotedNames(cols) == [i \in 1..Len(cols) |-> Quote(cols[i].name)]

\* the columns one function group adds: partition columns, order columns, then
\* per function its argument columns and, if withOutputs, its output column
GroupColumns(g, withOutputs) ==
    (IF g.partitionBy.kind = "none" THEN <<>> ELSE QuotedNames(g.partitionBy.list))
    \o (IF g.orderBy.kind = "none" THEN <<>> ELSE QuotedNames(g.orderBy.list))
    \o Concat([i \in 1..Len(g.analyticFunctionList) |->
                 QuotedNames(g.analyticFunctionList[i].expr.args)
                 \o (IF withOutputs THEN <<Quote(g.analyticFunctionList[i].name)>> ELSE <<>>)])

ScanColumns(n, withOutputs) ==
    Concat([i \in 1..Len(n.functionGroupList) |->
               GroupColumns(n.functionGroupList[i], withOutputs)])

\* what formatting the input of the analytic scan formatted at top level gives
AnalyticInput == FormatSQL(node.inputScan, FreshContext, FreshEnv)

\* the derived table with its row ordinal, ordered by cols
AnalyticScanText(cols) ==
    <<"FROM ( SELECT *, ROW_NUMBER() OVER() AS ", BackQuote, "rowid", BackQuote, " ">>
    \o AnalyticInput.text \o <<" ) ", "ORDER BY ">> \o Join(cols, <<",">>)

-----------------------------------------------------------------------------
(* Analytic calls *)

\* the first token of each kind of positional option, in the claimed order
OptionMarkers ==
    << "zetasqlite_distinct_string()",
       "zetasqlite_window_partition_string(",
       "zetasqlite_window_order_by_string(",
       "zetasqlite_window_frame_unit_string(",
       "zetasqlite_window_boundary_start_string(",
       "zetasqlite_window_boundary_end_string(",
       "zetasqlite_window_rowid_string(" >>

MarkerRank(tok) == CHOOSE i \in 1..Len(OptionMarkers) : OptionMarkers[i] = tok

IsMarker(tok) == \E i \in 1..Len(OptionMarkers) : OptionMarkers[i] = tok

\* the kinds of the options of a text, in the order in which they occur
OptionKinds(text) ==
    LET ms == SelectSeq(text, IsMarker) IN [i \in 1..Len(ms) |-> MarkerRank(ms[i])]

CountKind(kinds, k) == Cardinality({ i \in 1..Len(kinds) : kinds[i] = k })

\* the text is that of an emitted (not inlined) call
IsEmittedCall(text) == text # <<>> /\ Head(text) = "( SELECT "

\* text is an emitted analytic call of the node call: the formatted arguments
\* come first, then the options in the fixed order, the row-id option last
OptionsInOrder(text, call) ==
    LET kinds == OptionKinds(text)
        open == CHOOSE i \in 1..Len(text) :
                    text[i] = "(" /\ \A j \in 1..(i - 1) : text[j] # "("
        argsText == Join([i \in 1..Len(call.args) |-> Quote(call.args[i].name)], <<",">>)
        firstOption == CHOOSE i \in 1..Len(text) :
                           IsMarker(text[i]) /\ \A j \in 1..(i - 1) : ~IsMarker(text[j])
    IN  /\ \A i, j \in 1..Len(kinds) : i < j => kinds[i] <= kinds[j]
        /\ CountKind(kinds, 1) = (IF call.distinct THEN 1 ELSE 0)
        /\ \A k \in 4..6 : CountKind(kinds, k) = (IF call.windowFrame.kind = "none" THEN 0 ELSE 1)
        /\ CountKind(kinds, 7) = 1
        /\ SubSeq(text, open + 1, open + Len(argsText)) = argsText
        /\ firstOption = open + Len(argsText) + (IF argsText = <<>> THEN 1 ELSE 2)
        /\ SubSeq(text, Len(text) - 8, Len(text) - 3) = getWindowRowIDOptionFuncSQL \o <<")">>
        /\ text[Len(text) - 2] = " FROM "

\* the window functions of an analytic scan, group after group
ScanFunctions(n) ==
    Concat([i \in 1..Len(n.functionGroupList) |-> n.functionGroupList[i].analyticFunctionList])

\* the text a computed column of the translated analytic scan left in the
\* column map, without its alias
MappedCall(name) ==
    LET q == result.c.columnMap[name] IN SubSeq(q, 1, Len(q) - 4)

\* C11: in the text of every analytic call that is not inlined, the arguments
\* are followed by the DISTINCT marker (only if set), the partition options,
\* the order options, the frame unit, frame start and frame end (only if a
\* frame is declared) and last the row-id option, always present.
C11_OptionsInFixedOrder ==
    /\ (Succeeded /\ node.kind = "AnalyticFunctionCall" /\ ~node.absent
            /\ IsEmittedCall(result.text))
          => OptionsInOrder(result.text, node)
    /\ (Succeeded /\ node.kind = "AnalyticScan" /\ ~node.absent)
          => \A i \in 1..Len(ScanFunctions(node)) :
                LET f == ScanFunctions(node)[i] IN
                IsEmittedCall(MappedCall(f.name)) => OptionsInOrder(MappedCall(f.name), f.expr)

\* C11 witness: a DISTINCT call with a frame, in a group with a PARTITION BY
\* and an ORDER BY column, was emitted with options of all seven kinds
C11_Witness ==
    /\ Succeeded
    /\ node.kind = "AnalyticScan"
    /\ ~node.absent
    /\ Len(node.functionGroupList) = 1
    /\ node.functionGroupList[1].partitionBy.kind # "none"
    /\ node.functionGroupList[1].orderBy.kind # "none"
    /\ node.functionGroupList[1].analyticFunctionList[1].expr.distinct
    /\ IsEmittedCall(MappedCall("w"))
    /\ \A k \in 1..7 : CountKind(OptionKinds(MappedCall("w")), k) >= 1

\* the options of one kind in a call text, in order: a marker, a quoted column
\* name and the closing parenthesis
OptionsOfKind(text, k) ==
    LET at == SelectSeq([i \in 1..Len(text) |-> i], LAMBDA i : text[i] = OptionMarkers[k])
    IN  [j \in 1..Len(at) |-> SubSeq(text, at[j], at[j] + 4)]

\* the columns of a PARTITION BY or ORDER BY clause, quoted
ClauseColumns(clause) == IF clause.kind = "none" THEN <<>> ELSE QuotedNames(clause.list)

\* C12 (as claimed): every emitted analytic call of an analytic scan has one
\* order option per ORDER BY column of its own function group and one partition
\* option per PARTITION BY column of that group, and no others.
C12_OptionsOfOwnGroup ==
    (Succeeded /\ node.kind = "AnalyticScan" /\ ~node.absent)
        => \A g \in 1..Len(node.functionGroupList) :
             LET group == node.functionGroupList[g]
                 orders == ClauseColumns(group.orderBy)
                 partitions == ClauseColumns(group.partitionBy)
             IN  \A i \in 1..Len(group.analyticFunctionList) :
                   LET text == MappedCall(group.analyticFunctionList[i].name) IN
                   IsEmittedCall(text)
                     => /\ OptionsOfKind(text, 3) =
                             [j \in 1..Len(orders) |-> getWindowOrderByOptionFuncSQL(orders[j])]
                        /\ OptionsOfKind(text, 2) =
                             [j \in 1..Len(partitions) |->
                                 getWindowPartitionOptionFuncSQL(partitions[j])]

\* C13 (as claimed): an analytic call formatted outside any analytic scan fails
\* with an error and empty text, and no analytic call formatted inside an
\* analytic scan fails for a missing correlation table.
C13_MissingTableOnlyOutsideScan ==
    /\ (Done /\ node.kind = "AnalyticFunctionCall" /\ ~node.absent)
          => (result.err # NoErr /\ result.text = <<>>)
    /\ (Done /\ node.kind = "AnalyticScan" /\ ~node.absent)
          => result.err # ErrNoTable

-----------------------------------------------------------------------------
(* Repeated translation *)

-----------------------------------------------------------------------------
(* Absent payloads *)

\* C15 (as claimed): formatting a wrapper of any variant whose payload is
\* absent returns empty text and no error and reads neither the cursor nor the
\* column map.
C15_AbsentPayloadIsEmpty ==
    (Done /\ node.absent /\ node.kind # "none")
        => /\ result.text = <<>>
           /\ result.err = NoErr
           /\ result.c.idx = 0
           /\ DOMAIN result.c.columnMap = {}

-----------------------------------------------------------------------------
(* Callable names *)

\* the callable name in the text of an emitted call: the tokens before the
\* opening parenthesis of the argument list
CalleeName(text) ==
    LET open == CHOOSE i \in 1..Len(text) :
                    text[i] = "(" /\ \A j \in 1..(i - 1) : text[j] # "("
    IN  SubSeq(text, IF Head(text) = "( SELECT " THEN 2 ELSE 1, open - 1)

\* the text is an emitted call, not an inlined body
HasCalleeName(r) ==
    /\ r.err = NoErr
    /\ \E i \in 1..Len(r.text) : r.text[i] = "("
    /\ Head(r.text) # "( "

\* the result-type family: the lower-cased name, every structured type struct
Family(type) ==
    CASE type = Int64 -> "int64"
      [] type = StringT -> "string"
      [] OTHER -> "struct"

\* prefix_<bare>_<family>
MangledName(n) ==
    <<(IF n.kind = "AnalyticFunctionCall" THEN "zetasqlite_window_" ELSE "zetasqlite_")>>
    \o (IF n.fn[1] = "$" THEN Tail(n.fn) ELSE n.fn)
    \o <<"_", Family(n.type)>>

\* C16 (as claimed): the callable name of a call depends on the function
\* identity and the result-type family only: a sigil-prefixed or catalog-listed
\* name is prefix_<bare>_<family>, and the same call has the same name on any
\* other cursor, declared path and FunctionSpec map.
C16_NameDependsOnIdentityAndFamily ==
    /\ (Done /\ ~UserDefined(node) /\ HasCalleeName(result))
          => CalleeName(result.text) = MangledName(node)
    /\ (phase = "moved" /\ HasCalleeName(result) /\ HasCalleeName(second))
          => CalleeName(second.text) = CalleeName(result.text)

\* C16 (amended): the name of a sigil-prefixed or catalog-listed call is
\* prefix_<bare>_<family> on the first context and on every other one.
C16_BuiltinNameDependsOnIdentityAndFamily ==
    /\ (Done /\ ~UserDefined(node) /\ HasCalleeName(result))
          => CalleeName(result.text) = MangledName(node)
    /\ (phase = "moved" /\ ~UserDefined(node) /\ HasCalleeName(second))
          => CalleeName(second.text) = MangledName(node)

\* C16 witness: a sigil-prefixed call with a structured result type, whose
\* argument takes a cursor entry first, got the same struct-family name on a
\* context with another declared path and no FunctionSpec
C16_Witness ==
    /\ phase = "moved"
    /\ node.kind = "FunctionCall"
    /\ node.fn = <<"$", "add">>
    /\ node.type = StructU
    /\ node.args # <<>>
    /\ namePath # DeclaredPath
    /\ funcMap = EmptyMap
    /\ HasCalleeName(result)
    /\ HasCalleeName(second)
    /\ CalleeName(second.text) = <<"zetasqlite_", "add", "_", "struct">>
    /\ CalleeName(result.text) = CalleeName(second.text)

-----------------------------------------------------------------------------
(* Order of the cursor entries *)

RECURSIVE RefOrder(_)
RECURSIVE RefOrderSeq(_)
RefOrderSeq(ns) == IF ns = <<>> THEN <<>> ELSE RefOrder(Head(ns)) \o RefOrderSeq(Tail(ns))
\* the references of a tree in the claimed order: a DML statement before its
\* rows, assignments and WHERE expression; a user-defined call after its
\* arguments; the computed columns of a project scan and the aggregates of an
\* aggregate scan before the input scan
RefOrder(n) ==
    IF n.absent THEN <<>>
    ELSE IF n.kind \in DMLKinds THEN <<n>> \o RefOrderSeq(Children(n))
    ELSE RefOrderSeq(Children(n)) \o (IF IsReference(n) THEN <<n>> ELSE <<>>)

\* C17: within one translation the cursor entries are taken in this order: by
\* a user-defined call after its arguments, by the computed columns of a
\* project scan and the aggregates of an aggregate scan before the input scan,
\* by a DML statement before its rows, assignments and WHERE expression.
C17_EntriesTakenInOrder ==
    Succeeded => result.c.taken = RefOrder(node)

\* C17 witness: a project scan whose computed column calls a user-defined
\* function: the call took the first entry, a FunctionSpec name, and was
\* inlined; the table of the input scan took the second
C17_Witness ==
    /\ Succeeded
    /\ node.kind = "ProjectScan"
    /\ ~node.absent
    /\ node.inputScan = Table
    /\ paths = << <<"udf">>, <<"t">> >>
    /\ result.c.taken = <<UdfCall(<<X>>), Table>>
    /\ result.text = <<"SELECT ", "( ", BackQuote, "x", BackQuote, " + ", "?", " )",
                       " AS ", BackQuote, "x", BackQuote, " ",
                       "FROM ", BackQuote, "db", "_", "t", BackQuote>>

-----------------------------------------------------------------------------
(* Partition columns of successive function groups *)

\* C18 (as claimed): in an analytic scan the calls of a function group that
\* declares no PARTITION BY emit no partition option, also when an earlier
\* group of the scan declared one.
C18_PartitionColumnsStayInGroup ==
    (Succeeded /\ node.kind = "AnalyticScan" /\ ~node.absent)
        => \A g \in 1..Len(node.functionGroupList) :
             LET group == node.functionGroupList[g] IN
             group.partitionBy.kind = "none"
               => \A i \in 1..Len(group.analyticFunctionList) :
                     LET text == MappedCall(group.analyticFunctionList[i].name) IN
                     IsEmittedCall(text) => OptionsOfKind(text, 2) = <<>>

====
